---- MODULE Spec2Model ----
(***************************************************************************)
(* Model of the free-course backend's two storage backends:                *)
(*   - the file-backed ServerlessDatabase (src/unnamed/part_000), whose    *)
(*     async methods are cut into one action per await point, and          *)
(*   - the SQLite-backed express routes (src/server.js), whose handlers    *)
(*     are cut into one action per SQL statement with its callback.        *)
(*                                                                         *)
(* A call on the store is suspended at each await; any suspended call whose *)
(* awaited operation can complete may be resumed next. A file is read or    *)
(* written by the thread pool at one moment, and the call that awaits it    *)
(* resumes in a later step.                                                 *)
(***************************************************************************)
EXTENDS Integers, Sequences, FiniteSets, TLC

\* ---------------------------------------------------------------- bounds
MaxCalls == 3        \* calls made on the ServerlessDatabase singleton
MaxInFlight == 2     \* calls that have been made and have not yet returned
MaxClock == 3        \* last millisecond the clock reaches (it starts at 1)
MaxReqs == 3         \* HTTP requests the SQLite-backed server receives
MaxStored == 3       \* records an array of the store holds before the first call
MaxApplied == 2      \* calls made on a store whose content was drawn at start

Emails == {"a@x.com", "b@x.com"}
Names == {"Ann"}
Courses == {"Intro", "Adv"}
\* The (email, courseTitle) pairs the calls on the file-backed store are made with.
Pairs == {<<"a@x.com", "Intro">>, <<"b@x.com", "Intro">>, <<"a@x.com", "Adv">>}
ContactEmails == {"a@x.com"}
Subjects == {"Hi"}
Messages == {"Hello"}

CallIds == 1..MaxCalls
ReqIds == 1..MaxReqs

VARIABLES
  data,          \* this.data: [enrollments, contactSubmissions]
  initialized,   \* this.initialized
  dataFile,      \* content of the file at this.dataFile
  contactFile,   \* content of the file at this.contactFile
  now,           \* the last value read from the wall clock, in milliseconds
  calls,         \* the calls made on the store, each with its position and locals
  bootFiles,     \* the two files as they were when the process started
  table,         \* the rows of the SQLite table enrollments, in rowid order
  lastID,        \* the AUTOINCREMENT sequence of the table (sqlite_sequence)
  reqs,          \* the HTTP requests of server.js, each with its position
  bootTable,     \* the table as it was when the server started
  contact_submissions  \* the SQLite table contact_submissions, if it exists

fileVars == <<data, initialized, dataFile, contactFile, now, calls, bootFiles>>
sqlVars == <<table, lastID, reqs, bootTable, contact_submissions>>
vars == <<fileVars, sqlVars>>

\* ---------------------------------------------------------------- files
\* A file is absent, holds text JSON.parse rejects, or holds a JSON document
\* with one array of records.
Absent == [kind |-> "absent", recs |-> <<>>]
Corrupt == [kind |-> "corrupt", recs |-> <<>>]

\* JSON.stringify({ enrollments: [...] }) / ({ contactSubmissions: [...] })
Stringify(recs) == [kind |-> "json", recs |-> recs]

\* fs.readFile(...).catch(() => '{"enrollments": []}'): a failed read yields the
\* default document text.
ReadFileOrDefault(file) == IF file.kind = "absent" THEN Stringify(<<>>) ELSE file

\* JSON.parse throws on the text of a corrupt file.
ParseThrows(text) == text.kind = "corrupt"

\* JSON.parse(text).enrollments || []
Parse(text) == text.recs

\* A record stored before this process started.
OldEnrollment ==
  [id |-> 0, email |-> "a@x.com", name |-> "Ann", course_title |-> "Intro",
   enrolled_at |-> 0]

\* The two files a process may find when it starts: none yet, an enrollments
\* file written by an earlier process, and either file unparsable.
StartFiles ==
  {<<Absent, Absent>>, <<Stringify(<<OldEnrollment>>), Absent>>,
   <<Corrupt, Absent>>, <<Stringify(<<OldEnrollment>>), Corrupt>>}

EmptyData == [enrollments |-> <<>>, contactSubmissions |-> <<>>]

\* ---------------------------------------------------------------- calls
NoArgs == [email |-> "", name |-> "", courseTitle |-> "", subject |-> "", message |-> ""]
Pending == [kind |-> "pending", val |-> <<>>, msg |-> ""]

IdleCall ==
  [op |-> "none", args |-> NoArgs, pc |-> "idle",
   enrollmentsData |-> Absent, contactData |-> Absent,
   existing |-> <<>>, rec |-> <<>>, pending |-> Absent,
   seen |-> {}, result |-> Pending]

\* The calls that had returned (or thrown) to their caller.
Returned == {j \in CallIds : calls[j].pc = "done"}

\* The calls in progress.
InFlight == {j \in CallIds : calls[j].pc \notin {"idle", "done"}}

\* Call slots are used in the order the calls are made.
NextSlot(i) ==
  /\ calls[i].pc = "idle"
  /\ \A j \in CallIds : j < i => calls[j].pc # "idle"
  /\ Cardinality(InFlight) < MaxInFlight

\* Where a method continues once its `await this.init()` has resolved.
AfterInit(op) ==
  CASE op = "createEnrollment" -> "find"
    [] op = "getEnrollmentByCourseAndEmail" -> "find"
    [] op = "getAllEnrollments" -> "sort"
    [] op = "createContactSubmission" -> "push"
    [] op = "getEnrollmentStats" -> "stats"
    [] op = "getAllContactSubmissions" -> "sortContact"

\* The synchronous start of any method: init() returns at once when
\* this.initialized is set, and otherwise issues the first readFile.
Begin(i, op, args) ==
  /\ NextSlot(i)
  /\ calls' = [calls EXCEPT ![i] =
       [@ EXCEPT !.op = op, !.args = args, !.seen = Returned,
                 !.pc = IF initialized THEN AfterInit(op) ELSE "read1"]]
  /\ UNCHANGED <<data, initialized, dataFile, contactFile, now, bootFiles, sqlVars>>

CallCreateEnrollment(i, email, name, courseTitle) ==
  Begin(i, "createEnrollment",
        [NoArgs EXCEPT !.email = email, !.name = name, !.courseTitle = courseTitle])

CallGetEnrollmentByCourseAndEmail(i, courseTitle, email) ==
  Begin(i, "getEnrollmentByCourseAndEmail",
        [NoArgs EXCEPT !.email = email, !.courseTitle = courseTitle])

CallGetAllEnrollments(i) == Begin(i, "getAllEnrollments", NoArgs)

CallGetEnrollmentStats(i) == Begin(i, "getEnrollmentStats", NoArgs)

CallGetAllContactSubmissions(i) == Begin(i, "getAllContactSubmissions", NoArgs)

CallCreateContactSubmission(i, name, email, subject, message) ==
  Begin(i, "createContactSubmission",
        [NoArgs EXCEPT !.name = name, !.email = email, !.subject = subject,
                       !.message = message])

\* ---------------------------------------------------------------- init()
\* await fs.readFile(this.dataFile, 'utf8').catch(...)
ReadDataFile(i) ==
  /\ calls[i].pc = "read1"
  /\ calls' = [calls EXCEPT ![i] =
       [@ EXCEPT !.enrollmentsData = ReadFileOrDefault(dataFile), !.pc = "read2"]]
  /\ UNCHANGED <<data, initialized, dataFile, contactFile, now, bootFiles, sqlVars>>

\* await fs.readFile(this.contactFile, 'utf8').catch(...)
ReadContactFile(i) ==
  /\ calls[i].pc = "read2"
  /\ calls' = [calls EXCEPT ![i] =
       [@ EXCEPT !.contactData = ReadFileOrDefault(contactFile), !.pc = "parse"]]
  /\ UNCHANGED <<data, initialized, dataFile, contactFile, now, bootFiles, sqlVars>>

\* Whether the try block of init() throws on the two texts read.
InitThrows(enrollmentsData, contactData) ==
  ParseThrows(enrollmentsData) \/ ParseThrows(contactData)

\* init() with a catch block that only sets this.initialized: this.data keeps
\* what the try block had assigned before it threw.
InitDataWithoutReset(enrollmentsData, contactData) ==
  IF ParseThrows(enrollmentsData) THEN data
  ELSE IF ParseThrows(contactData)
    THEN [data EXCEPT !.enrollments = Parse(enrollmentsData)]
    ELSE [enrollments |-> Parse(enrollmentsData),
          contactSubmissions |-> Parse(contactData)]

\* this.data after the try/catch of init(): the two parsed arrays, or, from the
\* catch block, a fresh empty object.
InitData(enrollmentsData, contactData) ==
  IF InitThrows(enrollmentsData, contactData)
    THEN EmptyData
    ELSE [enrollments |-> Parse(enrollmentsData),
          contactSubmissions |-> Parse(contactData)]

\* The continuation of init() after its second read: parse, assign, set
\* this.initialized (in the try block or in the catch block), and resume the
\* method that awaited it.
InitFinish(i) ==
  /\ calls[i].pc = "parse"
  /\ data' = InitData(calls[i].enrollmentsData, calls[i].contactData)
  /\ initialized' = TRUE
  /\ calls' = [calls EXCEPT ![i] =
       [@ EXCEPT !.enrollmentsData = Absent, !.contactData = Absent,
                 !.pc = AfterInit(calls[i].op)]]
  /\ UNCHANGED <<dataFile, contactFile, now, bootFiles, sqlVars>>

\* ---------------------------------------------------------------- lookup
\* Array.prototype.find with the predicate of getEnrollmentByCourseAndEmail:
\* the first record matching both fields, or undefined (the empty sequence).
RECURSIVE FindFrom(_, _, _, _)
FindFrom(recs, k, courseTitle, email) ==
  IF k > Len(recs) THEN <<>>
  ELSE IF recs[k].course_title = courseTitle /\ recs[k].email = email
    THEN <<recs[k]>>
    ELSE FindFrom(recs, k + 1, courseTitle, email)

\* A lookup by email alone.
FindByEmail(recs, courseTitle, email) ==
  IF \E k \in 1..Len(recs) : recs[k].email = email
    THEN <<recs[CHOOSE k \in 1..Len(recs) : recs[k].email = email]>>
    ELSE <<>>

FindEnrollment(recs, courseTitle, email) == FindFrom(recs, 1, courseTitle, email)

\* The body of getEnrollmentByCourseAndEmail after its await: inside
\* createEnrollment the result goes to `existing`; called directly it is the
\* value returned.
Find(i) ==
  /\ calls[i].pc = "find"
  /\ LET found == FindEnrollment(data.enrollments, calls[i].args.courseTitle,
                                 calls[i].args.email)
     IN calls' = [calls EXCEPT ![i] =
          IF calls[i].op = "createEnrollment"
            THEN [@ EXCEPT !.existing = found, !.pc = "decide"]
            ELSE [@ EXCEPT !.pc = "done",
                           !.result = [kind |-> IF found = <<>> THEN "undefined" ELSE "found",
                                       val |-> found, msg |-> ""]]]
  /\ UNCHANGED <<data, initialized, dataFile, contactFile, now, bootFiles, sqlVars>>

\* ---------------------------------------------------------------- createEnrollment
\* The message of the Error createEnrollment throws.
DuplicateMessage == "User already enrolled in this course"

\* if (existing) throw new Error('User already enrolled in this course')
CreateEnrollmentThrow(i) ==
  /\ calls[i].pc = "decide"
  /\ calls[i].existing # <<>>
  /\ calls' = [calls EXCEPT ![i] =
       [@ EXCEPT !.pc = "done", !.existing = <<>>,
                 !.result = [kind |-> "error", val |-> <<>>, msg |-> DuplicateMessage]]]
  /\ UNCHANGED <<data, initialized, dataFile, contactFile, now, bootFiles, sqlVars>>

\* A reading of the clock: it never goes back, and what matters of it is
\* whether it is still the millisecond last read or a later one. Date.now() and
\* the new Date() two lines below it run in one synchronous block and are given
\* the same reading.
ClockReads == {t \in {now, now + 1} : t <= MaxClock}

\* The object literal of createEnrollment: id from Date.now(), enrolled_at from
\* new Date().toISOString().
NewEnrollment(args, t, t2) ==
  [id |-> t, email |-> args.email, name |-> args.name,
   course_title |-> args.courseTitle, enrolled_at |-> t2]

\* Build the record, push it, and start saveEnrollments: the document text is
\* produced from this.data.enrollments when writeFile is called.
CreateEnrollmentPush(i) ==
  /\ calls[i].pc = "decide"
  /\ calls[i].existing = <<>>
  /\ \E t \in ClockReads :
       /\ LET enrollment == NewEnrollment(calls[i].args, t, t)
              pushed == Append(data.enrollments, enrollment)
          IN /\ data' = [data EXCEPT !.enrollments = pushed]
             /\ calls' = [calls EXCEPT ![i] =
                  [@ EXCEPT !.rec = <<enrollment>>, !.pending = Stringify(pushed),
                            !.pc = "write"]]
       /\ now' = t
  /\ UNCHANGED <<initialized, dataFile, contactFile, bootFiles, sqlVars>>

\* ---------------------------------------------------------------- createContactSubmission
NewSubmission(args, t, t2) ==
  [id |-> t, name |-> args.name, email |-> args.email, subject |-> args.subject,
   message |-> args.message, submitted_at |-> t2]

CreateContactPush(i) ==
  /\ calls[i].pc = "push"
  /\ \E t \in ClockReads :
       /\ LET submission == NewSubmission(calls[i].args, t, t)
              pushed == Append(data.contactSubmissions, submission)
          IN /\ data' = [data EXCEPT !.contactSubmissions = pushed]
             /\ calls' = [calls EXCEPT ![i] =
                  [@ EXCEPT !.rec = <<submission>>, !.pending = Stringify(pushed),
                            !.pc = "write"]]
       /\ now' = t
  /\ UNCHANGED <<initialized, dataFile, contactFile, bootFiles, sqlVars>>

\* ---------------------------------------------------------------- saveEnrollments / saveContact
\* fs.writeFile resolves: the file holds the text handed to it.
WriteFileOk(i) ==
  /\ calls[i].pc = "write"
  /\ IF calls[i].op = "createEnrollment"
       THEN dataFile' = calls[i].pending /\ UNCHANGED contactFile
       ELSE contactFile' = calls[i].pending /\ UNCHANGED dataFile
  /\ calls' = [calls EXCEPT ![i] = [@ EXCEPT !.pending = Absent, !.pc = "ret"]]
  /\ UNCHANGED <<data, initialized, now, bootFiles, sqlVars>>

\* fs.writeFile rejects: the file is as it was (the open failed) or is left
\* truncated (the write failed after the open); the catch block only logs.
WriteFileFail(i) ==
  /\ calls[i].pc = "write"
  /\ IF calls[i].op = "createEnrollment"
       THEN dataFile' \in {dataFile, Corrupt} /\ UNCHANGED contactFile
       ELSE contactFile' \in {contactFile, Corrupt} /\ UNCHANGED dataFile
  /\ calls' = [calls EXCEPT ![i] = [@ EXCEPT !.pending = Absent, !.pc = "ret"]]
  /\ UNCHANGED <<data, initialized, now, bootFiles, sqlVars>>

\* return enrollment / return submission
ReturnRecord(i) ==
  /\ calls[i].pc = "ret"
  /\ calls' = [calls EXCEPT ![i] =
       [@ EXCEPT !.pc = "done", !.rec = <<>>,
                 !.result = [kind |-> "record", val |-> calls[i].rec, msg |-> ""]]]
  /\ UNCHANGED <<data, initialized, dataFile, contactFile, now, bootFiles, sqlVars>>

\* ---------------------------------------------------------------- getAllEnrollments
\* Array.prototype.sort (stable, in place) with the comparator
\* (a, b) => new Date(b.enrolled_at) - new Date(a.enrolled_at): insertion of each
\* record after the records that are not older than it.
RECURSIVE InsertDesc(_, _, _)
InsertDesc(sorted, r, key) ==
  IF sorted = <<>> THEN <<r>>
  ELSE IF Head(sorted)[key] >= r[key]
    THEN <<Head(sorted)>> \o InsertDesc(Tail(sorted), r, key)
    ELSE <<r>> \o sorted

RECURSIVE SortDescFrom(_, _, _, _)
SortDescFrom(recs, k, acc, key) ==
  IF k > Len(recs) THEN acc
  ELSE SortDescFrom(recs, k + 1, InsertDesc(acc, recs[k], key), key)

\* A sort that returns the array as it found it.
SortSkipped(recs, key) == recs

SortDesc(recs, key) == SortDescFrom(recs, 1, <<>>, key)

\* return this.data.enrollments.sort(...): the array is sorted in place and
\* returned.
GetAllEnrollmentsSort(i) ==
  /\ calls[i].pc = "sort"
  /\ LET sorted == SortDesc(data.enrollments, "enrolled_at")
     IN /\ data' = [data EXCEPT !.enrollments = sorted]
        /\ calls' = [calls EXCEPT ![i] =
             [@ EXCEPT !.pc = "done",
                       !.result = [kind |-> "list", val |-> sorted, msg |-> ""]]]
  /\ UNCHANGED <<initialized, dataFile, contactFile, now, bootFiles, sqlVars>>

\* ---------------------------------------------------------------- getAllContactSubmissions
\* return this.data.contactSubmissions.sort(...), by submitted_at.
GetAllContactSubmissionsSort(i) ==
  /\ calls[i].pc = "sortContact"
  /\ LET sorted == SortDesc(data.contactSubmissions, "submitted_at")
     IN /\ data' = [data EXCEPT !.contactSubmissions = sorted]
        /\ calls' = [calls EXCEPT ![i] =
             [@ EXCEPT !.pc = "done",
                       !.result = [kind |-> "list", val |-> sorted, msg |-> ""]]]
  /\ UNCHANGED <<initialized, dataFile, contactFile, now, bootFiles, sqlVars>>

\* ---------------------------------------------------------------- getEnrollmentStats
\* new Set(this.data.enrollments.map(e => e.email)).size counted per record
\* instead of per distinct email.
UniqueUsersPerRecord(recs) == Len(recs)

\* new Set(this.data.enrollments.map(e => e.email)).size
UniqueUsers(recs) == Cardinality({recs[k].email : k \in 1..Len(recs)})

\* The keys of byCourse in the order Object.entries lists them: the order in
\* which forEach first met each course_title.
RECURSIVE CourseKeysFrom(_, _, _)
CourseKeysFrom(recs, k, keys) ==
  IF k > Len(recs) THEN keys
  ELSE IF \E j \in 1..Len(keys) : keys[j] = recs[k].course_title
    THEN CourseKeysFrom(recs, k + 1, keys)
    ELSE CourseKeysFrom(recs, k + 1, Append(keys, recs[k].course_title))

CourseKeys(recs) == CourseKeysFrom(recs, 1, <<>>)

\* byCourse[course_title] once forEach has run: one increment per record.
ByCourse(recs, courseTitle) ==
  Cardinality({k \in 1..Len(recs) : recs[k].course_title = courseTitle})

\* Object.entries(byCourse).map(...).sort((a, b) => b.enrollments - a.enrollments)
EnrollmentsByCourse(recs) ==
  LET keys == CourseKeys(recs)
  IN SortDesc([j \in 1..Len(keys) |->
                 [course_title |-> keys[j], enrollments |-> ByCourse(recs, keys[j])]],
              "enrollments")

\* The object getEnrollmentStats returns.
EnrollmentStats(recs) ==
  [totalEnrollments |-> Len(recs),
   uniqueUsers |-> UniqueUsers(recs),
   enrollmentsByCourse |-> EnrollmentsByCourse(recs)]

GetEnrollmentStats(i) ==
  /\ calls[i].pc = "stats"
  /\ calls' = [calls EXCEPT ![i] =
       [@ EXCEPT !.pc = "done",
                 !.result = [kind |-> "stats", val |-> <<EnrollmentStats(data.enrollments)>>,
                             msg |-> ""]]]
  /\ UNCHANGED <<data, initialized, dataFile, contactFile, now, bootFiles, sqlVars>>

\* ---------------------------------------------------------------- server.js: the table
\* A row stored before this server started.
OldRow == [id |-> 1, email |-> "a@x.com", name |-> "Ann", course_title |-> "Intro"]

\* SELECT * FROM enrollments WHERE course_title = ? AND email = ? through db.get:
\* the first matching row, or undefined (the empty sequence).
RECURSIVE SelectFrom(_, _, _, _)
SelectFrom(rows, k, courseTitle, email) ==
  IF k > Len(rows) THEN <<>>
  ELSE IF rows[k].course_title = courseTitle /\ rows[k].email = email
    THEN <<rows[k]>>
    ELSE SelectFrom(rows, k + 1, courseTitle, email)

SelectEnrollment(rows, courseTitle, email) == SelectFrom(rows, 1, courseTitle, email)

\* A table created without the UNIQUE clause.
NoUniqueConstraint(rows, email, courseTitle) == FALSE

\* UNIQUE(email, course_title) of CREATE TABLE enrollments: whether inserting
\* the pair would break the constraint.
UniqueViolation(rows, email, courseTitle) ==
  \E k \in 1..Len(rows) : rows[k].email = email /\ rows[k].course_title = courseTitle

\* ---------------------------------------------------------------- server.js: requests
\* A field the body does not have, or has empty, is "": both are falsy.
NoBody == [email |-> "", name |-> "", courseTitle |-> "", subject |-> "", message |-> ""]

\* What res.json was given: rows is the array answered by the listing route,
\* stats the object answered by the statistics route.
NoResponse == [status |-> 0, id |-> 0, enrolled |-> FALSE, rows |-> <<>>, stats |-> <<>>]

\* The rows the three queries of the statistics route have delivered so far.
NoResults == [total |-> <<>>, unique |-> <<>>, byCourse |-> <<>>]

\* stmts: the statements the handler has issued that have not yet run.
IdleReq ==
  [route |-> "none", body |-> NoBody, pc |-> "idle", row |-> <<>>, err |-> "",
   stmts |-> {}, results |-> NoResults, res |-> NoResponse]

NextReq(r) ==
  /\ reqs[r].pc = "idle"
  /\ \A q \in ReqIds : q < r => reqs[q].pc # "idle"

\* app.post('/api/enrollments'), the synchronous part: the 400 for a missing
\* field, or the db.get that checks for an existing row.
\* A validation that does not ask for the name.
NameNotRequired(email, name, courseTitle) == email = "" \/ courseTitle = ""

\* if (!email || !name || !courseTitle)
EnrollmentFieldMissing(email, name, courseTitle) ==
  email = "" \/ name = "" \/ courseTitle = ""

PostEnrollments(r, email, name, courseTitle) ==
  /\ NextReq(r)
  /\ reqs' = [reqs EXCEPT ![r] =
       IF EnrollmentFieldMissing(email, name, courseTitle)
         THEN [@ EXCEPT !.route = "enroll", !.pc = "done",
                        !.body = [NoBody EXCEPT !.email = email, !.name = name,
                                                !.courseTitle = courseTitle],
                        !.res = [NoResponse EXCEPT !.status = 400]]
         ELSE [@ EXCEPT !.route = "enroll", !.pc = "select",
                        !.body = [NoBody EXCEPT !.email = email, !.name = name,
                                                !.courseTitle = courseTitle]]]
  /\ UNCHANGED <<table, lastID, bootTable, contact_submissions, fileVars>>

\* app.get('/api/enrollments/check/:courseTitle/:email'): the db.get is issued.
GetCheck(r, courseTitle, email) ==
  /\ NextReq(r)
  /\ reqs' = [reqs EXCEPT ![r] =
       [@ EXCEPT !.route = "check", !.pc = "select",
                 !.body = [NoBody EXCEPT !.email = email, !.courseTitle = courseTitle]]]
  /\ UNCHANGED <<table, lastID, bootTable, contact_submissions, fileVars>>

\* A statement and its callback are one step: the callback runs after the
\* statement, reads only the statement's result and touches only its own request
\* (the response, or the next statement it issues), so other requests' steps
\* between the two would find and leave the same table.

\* The db.get of the check route and its callback:
\* res.json({ enrolled: !!row, user: row }). The SELECT sees the table as it is
\* when it runs. (The table exists from startup, so the statement has no error
\* outcome that depends on the state.)
CheckSelect(r) ==
  /\ reqs[r].pc = "select"
  /\ reqs[r].route = "check"
  /\ LET row == SelectEnrollment(table, reqs[r].body.courseTitle, reqs[r].body.email)
     IN reqs' = [reqs EXCEPT ![r] =
          [@ EXCEPT !.pc = "done", !.row = row,
                    !.res = [NoResponse EXCEPT !.status = 200, !.enrolled = row # <<>>]]]
  /\ UNCHANGED <<table, lastID, bootTable, contact_submissions, fileVars>>

\* The db.get of the enroll route when it finds a row: its callback answers 409.
EnrollSelectFound(r) ==
  /\ reqs[r].pc = "select"
  /\ reqs[r].route = "enroll"
  /\ SelectEnrollment(table, reqs[r].body.courseTitle, reqs[r].body.email) # <<>>
  /\ reqs' = [reqs EXCEPT ![r] =
       [@ EXCEPT !.pc = "done", !.res = [NoResponse EXCEPT !.status = 409]]]
  /\ UNCHANGED <<table, lastID, bootTable, contact_submissions, fileVars>>

\* The db.get of the enroll route when it finds no row: its callback issues the
\* INSERT.
EnrollSelectNone(r) ==
  /\ reqs[r].pc = "select"
  /\ reqs[r].route = "enroll"
  /\ SelectEnrollment(table, reqs[r].body.courseTitle, reqs[r].body.email) = <<>>
  /\ reqs' = [reqs EXCEPT ![r] = [@ EXCEPT !.pc = "insert"]]
  /\ UNCHANGED <<table, lastID, bootTable, contact_submissions, fileVars>>

\* The response status the INSERT's callback gives for the statement's error.
InsertStatus(err) == IF err # "" THEN 500 ELSE 200

\* The INSERT fails on the UNIQUE constraint: its callback answers 500 with
\* err.message.
InsertRejected(r) ==
  /\ reqs[r].pc = "insert"
  /\ UniqueViolation(table, reqs[r].body.email, reqs[r].body.courseTitle)
  /\ reqs' = [reqs EXCEPT ![r] =
       [@ EXCEPT !.pc = "done", !.err = "SQLITE_CONSTRAINT",
                 !.res = [NoResponse EXCEPT !.status = InsertStatus("SQLITE_CONSTRAINT")]]]
  /\ UNCHANGED <<table, lastID, bootTable, contact_submissions, fileVars>>

\* The INSERT appends the row with the next AUTOINCREMENT id: its callback
\* answers with the created enrollment (id: this.lastID).
InsertDone(r) ==
  /\ reqs[r].pc = "insert"
  /\ ~UniqueViolation(table, reqs[r].body.email, reqs[r].body.courseTitle)
  /\ table' = Append(table,
       [id |-> lastID + 1, email |-> reqs[r].body.email,
        name |-> reqs[r].body.name, course_title |-> reqs[r].body.courseTitle])
  /\ lastID' = lastID + 1
  /\ reqs' = [reqs EXCEPT ![r] =
       [@ EXCEPT !.pc = "done",
                 !.res = [NoResponse EXCEPT !.status = InsertStatus(""), !.id = lastID + 1]]]
  /\ UNCHANGED <<bootTable, contact_submissions, fileVars>>

\* ---------------------------------------------------------------- server.js: contact
\* The table contact_submissions: it does not exist until a CREATE TABLE has
\* run; seq is its AUTOINCREMENT sequence.
NoContactTable == [exists |-> FALSE, rows |-> <<>>, seq |-> 0]

\* if (!name || !email || !subject || !message)
ContactFieldMissing(name, email, subject, message) ==
  name = "" \/ email = "" \/ subject = "" \/ message = ""

\* app.post('/api/contact'), the synchronous part: the 400 for a missing field,
\* or two db.run calls, the CREATE TABLE IF NOT EXISTS and the INSERT. The
\* database is in parallel mode (the db.serialize of the start-up has
\* returned), so the two statements run in an order the handler does not fix.
PostContact(r, name, email, subject, message) ==
  /\ NextReq(r)
  /\ reqs' = [reqs EXCEPT ![r] =
       IF ContactFieldMissing(name, email, subject, message)
         THEN [@ EXCEPT !.route = "contact", !.pc = "done",
                        !.body = [NoBody EXCEPT !.name = name, !.email = email,
                                                !.subject = subject, !.message = message],
                        !.res = [NoResponse EXCEPT !.status = 400]]
         ELSE [@ EXCEPT !.route = "contact", !.pc = "run",
                        !.stmts = {"create", "insert"},
                        !.body = [NoBody EXCEPT !.name = name, !.email = email,
                                                !.subject = subject, !.message = message]]]
  /\ UNCHANGED <<table, lastID, bootTable, contact_submissions, fileVars>>

\* The handler has nothing left to run once its last statement has run.
AfterStatement(req, stmt) == IF req.stmts = {stmt} THEN "done" ELSE req.pc

\* CREATE TABLE IF NOT EXISTS contact_submissions runs; its callback only logs.
ContactCreateTable(r) ==
  /\ reqs[r].route = "contact"
  /\ "create" \in reqs[r].stmts
  /\ contact_submissions' = [contact_submissions EXCEPT !.exists = TRUE]
  /\ reqs' = [reqs EXCEPT ![r] =
       [@ EXCEPT !.stmts = @ \ {"create"}, !.pc = AfterStatement(reqs[r], "create")]]
  /\ UNCHANGED <<table, lastID, bootTable, fileVars>>

\* The INSERT runs while the table does not exist: its callback answers 500.
ContactInsertFailed(r) ==
  /\ reqs[r].route = "contact"
  /\ "insert" \in reqs[r].stmts
  /\ ~contact_submissions.exists
  /\ reqs' = [reqs EXCEPT ![r] =
       [@ EXCEPT !.stmts = @ \ {"insert"}, !.pc = AfterStatement(reqs[r], "insert"),
                 !.err = "SQLITE_ERROR",
                 !.res = [NoResponse EXCEPT !.status = 500]]]
  /\ UNCHANGED <<table, lastID, bootTable, contact_submissions, fileVars>>

\* The INSERT appends the row, submitted_at taking CURRENT_TIMESTAMP: its
\* callback answers with id: this.lastID.
ContactInsertDone(r) ==
  /\ reqs[r].route = "contact"
  /\ "insert" \in reqs[r].stmts
  /\ contact_submissions.exists
  /\ \E t \in ClockReads :
       /\ contact_submissions' =
            [contact_submissions EXCEPT
               !.rows = Append(@, [id |-> contact_submissions.seq + 1,
                                   name |-> reqs[r].body.name,
                                   email |-> reqs[r].body.email,
                                   subject |-> reqs[r].body.subject,
                                   message |-> reqs[r].body.message,
                                   submitted_at |-> t]),
               !.seq = @ + 1]
       /\ now' = t
  /\ reqs' = [reqs EXCEPT ![r] =
       [@ EXCEPT !.stmts = @ \ {"insert"}, !.pc = AfterStatement(reqs[r], "insert"),
                 !.res = [NoResponse EXCEPT !.status = 200,
                                            !.id = contact_submissions.seq + 1]]]
  /\ UNCHANGED <<table, lastID, bootTable, data, initialized, dataFile, contactFile,
                 calls, bootFiles>>

\* app.get('/api/contact/submissions'): the db.all is issued.
GetSubmissions(r) ==
  /\ NextReq(r)
  /\ reqs' = [reqs EXCEPT ![r] = [@ EXCEPT !.route = "submissions", !.pc = "all"]]
  /\ UNCHANGED <<table, lastID, bootTable, contact_submissions, fileVars>>

\* SELECT * FROM contact_submissions ORDER BY submitted_at DESC while the table
\* does not exist: the callback answers 500 with err.message.
SubmissionsSelectFailed(r) ==
  /\ reqs[r].route = "submissions"
  /\ reqs[r].pc = "all"
  /\ ~contact_submissions.exists
  /\ reqs' = [reqs EXCEPT ![r] =
       [@ EXCEPT !.pc = "done", !.err = "SQLITE_ERROR",
                 !.res = [NoResponse EXCEPT !.status = 500]]]
  /\ UNCHANGED <<table, lastID, bootTable, contact_submissions, fileVars>>

\* The same statement on an existing table: the callback answers the rows.
SubmissionsSelectDone(r) ==
  /\ reqs[r].route = "submissions"
  /\ reqs[r].pc = "all"
  /\ contact_submissions.exists
  /\ reqs' = [reqs EXCEPT ![r] =
       [@ EXCEPT !.pc = "done",
                 !.res = [NoResponse EXCEPT
                            !.status = 200,
                            !.rows = SortDesc(contact_submissions.rows, "submitted_at")]]]
  /\ UNCHANGED <<table, lastID, bootTable, contact_submissions, fileVars>>

\* ---------------------------------------------------------------- server.js: statistics
\* app.get('/api/enrollments/stats'): three db.all calls are issued, one per
\* query, each wrapped in a promise.
GetStats(r) ==
  /\ NextReq(r)
  /\ reqs' = [reqs EXCEPT ![r] =
       [@ EXCEPT !.route = "stats", !.pc = "queries",
                 !.stmts = {"total", "unique", "byCourse"}]]
  /\ UNCHANGED <<table, lastID, bootTable, contact_submissions, fileVars>>

\* SELECT COUNT(*) as total_enrollments FROM enrollments
SelectTotal(rows) == <<[total_enrollments |-> Len(rows)]>>

\* SELECT COUNT(DISTINCT email) as unique_users FROM enrollments
SelectUnique(rows) ==
  <<[unique_users |-> Cardinality({rows[k].email : k \in 1..Len(rows)})]>>

\* SELECT course_title, COUNT(*) as enrollments FROM enrollments
\* GROUP BY course_title ORDER BY enrollments DESC: one row per course_title,
\* in any order that has the counts non-increasing (SQL leaves the order of
\* equal counts open).
SelectByCourse(rows) ==
  LET groups ==
        {[course_title |-> c,
          enrollments |-> Cardinality({k \in 1..Len(rows) : rows[k].course_title = c})] :
           c \in {rows[k].course_title : k \in 1..Len(rows)}}
  IN {s \in [1..Cardinality(groups) -> groups] :
        /\ \A g \in groups : \E j \in 1..Len(s) : s[j] = g
        /\ \A j \in 1..(Len(s) - 1) : s[j].enrollments >= s[j + 1].enrollments}

\* The results a query of the statistics route may deliver on the table as it
\* is.
QueryRows(stmt, rows) ==
  CASE stmt = "total" -> {SelectTotal(rows)}
    [] stmt = "unique" -> {SelectUnique(rows)}
    [] stmt = "byCourse" -> SelectByCourse(rows)

\* One of the three queries runs. With the last one Promise.all resolves and
\* the then-callback answers from the three results.
StatsQuery(r, stmt) ==
  /\ reqs[r].route = "stats"
  /\ stmt \in reqs[r].stmts
  /\ \E rows \in QueryRows(stmt, table) :
     LET results == [reqs[r].results EXCEPT ![stmt] = rows]
     IN reqs' = [reqs EXCEPT ![r] =
          IF reqs[r].stmts = {stmt}
            THEN [@ EXCEPT !.stmts = {}, !.pc = "done", !.results = NoResults,
                           !.res = [NoResponse EXCEPT
                                      !.status = 200,
                                      !.stats = <<[totalEnrollments |->
                                                     results.total[1].total_enrollments,
                                                   uniqueUsers |->
                                                     results.unique[1].unique_users,
                                                   enrollmentsByCourse |->
                                                     results.byCourse]>>]]
            ELSE [@ EXCEPT !.stmts = @ \ {stmt}, !.results = results]]
  /\ UNCHANGED <<table, lastID, bootTable, contact_submissions, fileVars>>

\* ---------------------------------------------------------------- specification
Init ==
  /\ data = EmptyData
  /\ initialized = FALSE
  /\ \E files \in StartFiles : dataFile = files[1] /\ contactFile = files[2]
  /\ now = 1
  /\ calls = [i \in CallIds |-> IdleCall]
  /\ bootFiles = <<dataFile, contactFile>>
  /\ table = <<>>
  /\ lastID = 0
  /\ reqs = [r \in ReqIds |-> IdleReq]
  /\ bootTable = table
  /\ contact_submissions = NoContactTable

Next ==
  \/ \E i \in CallIds, p \in Pairs, n \in Names :
       CallCreateEnrollment(i, p[1], n, p[2])
  \/ \E i \in CallIds, p \in Pairs :
       CallGetEnrollmentByCourseAndEmail(i, p[2], p[1])
  \/ \E i \in CallIds : CallGetAllEnrollments(i)
  \/ \E i \in CallIds, n \in Names, e \in ContactEmails, s \in Subjects, m \in Messages :
       CallCreateContactSubmission(i, n, e, s, m)
  \/ \E i \in CallIds : ReadDataFile(i)
  \/ \E i \in CallIds : ReadContactFile(i)
  \/ \E i \in CallIds : InitFinish(i)
  \/ \E i \in CallIds : Find(i)
  \/ \E i \in CallIds : CreateEnrollmentThrow(i)
  \/ \E i \in CallIds : CreateEnrollmentPush(i)
  \/ \E i \in CallIds : CreateContactPush(i)
  \/ \E i \in CallIds : WriteFileOk(i)
  \/ \E i \in CallIds : WriteFileFail(i)
  \/ \E i \in CallIds : ReturnRecord(i)
  \/ \E i \in CallIds : GetAllEnrollmentsSort(i)

Spec == Init /\ [][Next]_vars

\* The SQLite-backed server: the table is empty or holds an earlier row.
SqlInit ==
  /\ data = EmptyData
  /\ initialized = FALSE
  /\ dataFile = Absent
  /\ contactFile = Absent
  /\ now = 1
  /\ calls = [i \in CallIds |-> IdleCall]
  /\ bootFiles = <<dataFile, contactFile>>
  /\ table \in {<<>>, <<OldRow>>}
  /\ lastID = Len(table)
  /\ reqs = [r \in ReqIds |-> IdleReq]
  /\ bootTable = table
  /\ contact_submissions = NoContactTable

SqlNext ==
  \/ \E r \in ReqIds, e \in Emails \cup {""}, n \in Names \cup {""}, c \in Courses \cup {""} :
       PostEnrollments(r, e, n, c)
  \/ \E r \in ReqIds, c \in Courses, e \in Emails : GetCheck(r, c, e)
  \/ \E r \in ReqIds : CheckSelect(r)
  \/ \E r \in ReqIds : EnrollSelectFound(r)
  \/ \E r \in ReqIds : EnrollSelectNone(r)
  \/ \E r \in ReqIds : InsertRejected(r)
  \/ \E r \in ReqIds : InsertDone(r)

SqlSpec == SqlInit /\ [][SqlNext]_vars

\* The server with all its routes. The database file may be a fresh one, or one
\* in which an earlier run of the server has stored an enrollment or created
\* contact_submissions and stored a submission.
OldSubmission ==
  [id |-> 1, name |-> "Ann", email |-> "a@x.com", subject |-> "Hi", message |-> "Hello",
   submitted_at |-> 0]

ApiInit ==
  /\ data = EmptyData
  /\ initialized = FALSE
  /\ dataFile = Absent
  /\ contactFile = Absent
  /\ now = 1
  /\ calls = [i \in CallIds |-> IdleCall]
  /\ bootFiles = <<dataFile, contactFile>>
  /\ table \in {<<>>, <<OldRow>>}
  /\ lastID = Len(table)
  /\ reqs = [r \in ReqIds |-> IdleReq]
  /\ bootTable = table
  /\ contact_submissions \in
       {NoContactTable, [exists |-> TRUE, rows |-> <<OldSubmission>>, seq |-> 1]}

ApiNext ==
  \/ SqlNext
  \/ \E r \in ReqIds, n \in Names \cup {""}, e \in ContactEmails \cup {""},
        s \in Subjects \cup {""}, m \in Messages \cup {""} :
       PostContact(r, n, e, s, m)
  \/ \E r \in ReqIds : ContactCreateTable(r)
  \/ \E r \in ReqIds : ContactInsertFailed(r)
  \/ \E r \in ReqIds : ContactInsertDone(r)
  \/ \E r \in ReqIds : GetSubmissions(r)
  \/ \E r \in ReqIds : SubmissionsSelectFailed(r)
  \/ \E r \in ReqIds : SubmissionsSelectDone(r)
  \/ \E r \in ReqIds : GetStats(r)
  \/ \E r \in ReqIds, stmt \in {"total", "unique", "byCourse"} : StatsQuery(r, stmt)

ApiSpec == ApiInit /\ [][ApiNext]_vars

\* The two routes that validate a body, each field present or not.
PostNext ==
  \/ \E r \in ReqIds, e \in {"a@x.com", ""}, n \in Names \cup {""}, c \in {"Intro", ""} :
       PostEnrollments(r, e, n, c)
  \/ \E r \in ReqIds : EnrollSelectFound(r)
  \/ \E r \in ReqIds : EnrollSelectNone(r)
  \/ \E r \in ReqIds : InsertRejected(r)
  \/ \E r \in ReqIds : InsertDone(r)
  \/ \E r \in ReqIds, n \in Names \cup {""}, e \in ContactEmails \cup {""},
        s \in Subjects \cup {""}, m \in Messages \cup {""} :
       PostContact(r, n, e, s, m)
  \/ \E r \in ReqIds : ContactCreateTable(r)
  \/ \E r \in ReqIds : ContactInsertFailed(r)
  \/ \E r \in ReqIds : ContactInsertDone(r)

PostSpec == ApiInit /\ [][PostNext]_vars

\* The two backends side by side, both empty at the start, given the same
\* operations one after the other: operation k is call k on the file-backed
\* store and, once that call has returned, request k on the server; the next
\* operation starts when the request has been answered.
EnrollNames == {"Ann", "Bob"}
PairIds == CallIds \cap ReqIds

PairInit ==
  /\ data = EmptyData
  /\ initialized = FALSE
  /\ dataFile = Absent
  /\ contactFile = Absent
  /\ now = 1
  /\ calls = [i \in CallIds |-> IdleCall]
  /\ bootFiles = <<dataFile, contactFile>>
  /\ table = <<>>
  /\ lastID = 0
  /\ reqs = [r \in ReqIds |-> IdleReq]
  /\ bootTable = table
  /\ contact_submissions = NoContactTable

\* Every earlier operation has finished on both backends.
PairIdle(k) == \A j \in PairIds : j < k => calls[j].pc = "done" /\ reqs[j].pc = "done"

PairEnrollOnStore(k, email, name, courseTitle) ==
  /\ PairIdle(k)
  /\ CallCreateEnrollment(k, email, name, courseTitle)

PairCheckOnStore(k, courseTitle, email) ==
  /\ PairIdle(k)
  /\ CallGetEnrollmentByCourseAndEmail(k, courseTitle, email)

PairEnrollOnServer(k) ==
  /\ calls[k].pc = "done"
  /\ calls[k].op = "createEnrollment"
  /\ PostEnrollments(k, calls[k].args.email, calls[k].args.name, calls[k].args.courseTitle)

PairCheckOnServer(k) ==
  /\ calls[k].pc = "done"
  /\ calls[k].op = "getEnrollmentByCourseAndEmail"
  /\ GetCheck(k, calls[k].args.courseTitle, calls[k].args.email)

PairNext ==
  \/ \E k \in PairIds, p \in Pairs, n \in EnrollNames :
       PairEnrollOnStore(k, p[1], n, p[2])
  \/ \E k \in PairIds, p \in Pairs : PairCheckOnStore(k, p[2], p[1])
  \/ \E k \in PairIds : PairEnrollOnServer(k)
  \/ \E k \in PairIds : PairCheckOnServer(k)
  \/ \E i \in CallIds : ReadDataFile(i)
  \/ \E i \in CallIds : ReadContactFile(i)
  \/ \E i \in CallIds : InitFinish(i)
  \/ \E i \in CallIds : Find(i)
  \/ \E i \in CallIds : CreateEnrollmentThrow(i)
  \/ \E i \in CallIds : CreateEnrollmentPush(i)
  \/ \E i \in CallIds : WriteFileOk(i)
  \/ \E i \in CallIds : WriteFileFail(i)
  \/ \E i \in CallIds : ReturnRecord(i)
  \/ \E r \in ReqIds : CheckSelect(r)
  \/ \E r \in ReqIds : EnrollSelectFound(r)
  \/ \E r \in ReqIds : EnrollSelectNone(r)
  \/ \E r \in ReqIds : InsertDone(r)

PairSpec == PairInit /\ [][PairNext]_vars

\* The store already initialised, holding any records earlier calls may have
\* left: timestamps are not ordered, and a pair may be stored twice.
StoredEnrollments ==
  {[id |-> t, email |-> p[1], name |-> n, course_title |-> p[2], enrolled_at |-> t] :
     t \in 0..1, p \in Pairs, n \in Names}

StoredSubmissions ==
  {NewSubmission([NoArgs EXCEPT !.name = n, !.email = e, !.subject = s, !.message = m],
                 t, t) :
     t \in 0..1, n \in Names, e \in ContactEmails, s \in Subjects, m \in Messages}

SeqsUpTo(S, n) == UNION {[1..k -> S] : k \in 0..n}

StoreInit ==
  /\ \E enrollments \in SeqsUpTo(StoredEnrollments, MaxStored),
        contactSubmissions \in SeqsUpTo(StoredSubmissions, MaxStored) :
       /\ data = [enrollments |-> enrollments, contactSubmissions |-> contactSubmissions]
       /\ dataFile = Stringify(enrollments)
       /\ contactFile = Stringify(contactSubmissions)
  /\ initialized = TRUE
  /\ now = 1
  /\ calls = [i \in CallIds |-> IdleCall]
  /\ bootFiles = <<dataFile, contactFile>>
  /\ table = <<>>
  /\ lastID = 0
  /\ reqs = [r \in ReqIds |-> IdleReq]
  /\ bootTable = table
  /\ contact_submissions = NoContactTable

\* The listing and statistics methods are called one at a time.
StoreNext ==
  \/ \E i \in 1..MaxApplied : InFlight = {} /\ CallGetAllEnrollments(i)
  \/ \E i \in 1..MaxApplied : InFlight = {} /\ CallGetAllContactSubmissions(i)
  \/ \E i \in 1..MaxApplied : InFlight = {} /\ CallGetEnrollmentStats(i)
  \/ \E i \in 1..MaxApplied : GetAllEnrollmentsSort(i)
  \/ \E i \in 1..MaxApplied : GetAllContactSubmissionsSort(i)
  \/ \E i \in 1..MaxApplied : GetEnrollmentStats(i)

StoreSpec == StoreInit /\ [][StoreNext]_vars

\* ---------------------------------------------------------------- properties: helpers
PairOf(i) == <<calls[i].args.email, calls[i].args.courseTitle>>

\* Call i has returned a record to its caller.
ReturnedRecord(i) == calls[i].pc = "done" /\ calls[i].result.kind = "record"

SamePair(r1, r2) == r1.email = r2.email /\ r1.course_title = r2.course_title

NoDuplicateIds(recs) ==
  \A k, m \in 1..Len(recs) : recs[k].id = recs[m].id => k = m

\* The document in `file` lists record r.
InDocument(r, file) ==
  file.kind = "json" /\ \E k \in 1..Len(file.recs) : file.recs[k] = r

\* Call i resumes from its init() in this step.
InitCompletes(i) == calls[i].pc = "parse" /\ calls'[i].pc # "parse"

\* ---------------------------------------------------------------- C1
\* C1: in every reachable state data.enrollments holds at most one record for
\* each (email, course_title) pair, however createEnrollment calls interleave.
C1_OneRecordPerPair ==
  \A k, m \in 1..Len(data.enrollments) :
    SamePair(data.enrollments[k], data.enrollments[m]) => k = m

\* ---------------------------------------------------------------- C3
\* C3: a createEnrollment call made after an earlier createEnrollment for the
\* same (email, courseTitle) has returned its record ends with the
\* 'User already enrolled in this course' error.
C3_SecondCallFails ==
  \A i, j \in CallIds :
    ( /\ calls[i].op = "createEnrollment" /\ ReturnedRecord(i)
      /\ calls[j].op = "createEnrollment" /\ calls[j].pc = "done"
      /\ i \in calls[j].seen
      /\ PairOf(i) = PairOf(j) )
    => /\ calls[j].result.kind = "error"
       /\ calls[j].result.msg = DuplicateMessage

\* ---------------------------------------------------------------- C5
\* C5: when the files were absent at start and every call made before a
\* getAllEnrollments is a createEnrollment that has returned, with pairwise
\* distinct (email, courseTitle) pairs, each of those calls returned a record and
\* the list holds exactly as many records as there were calls.
C5_DistinctEnrollsAllListed ==
  \A g \in CallIds :
    LET others == {j \in CallIds \ {g} : calls[j].pc # "idle"}
    IN ( /\ calls[g].op = "getAllEnrollments" /\ calls[g].pc = "done"
         /\ bootFiles = <<Absent, Absent>>
         /\ others # {}
         /\ others \subseteq calls[g].seen
         /\ \A j \in others : calls[j].op = "createEnrollment"
         /\ \A j, k \in others : PairOf(j) = PairOf(k) => j = k )
       => /\ \A j \in others : calls[j].result.kind = "record"
          /\ Len(calls[g].result.val) = Cardinality(others)

\* ---------------------------------------------------------------- C6
\* C6: once one init() has completed (this.initialized is set), the completion
\* of any other init() leaves data.enrollments and data.contactSubmissions as
\* they were.
C6_InitIdempotent ==
  [][\A i \in CallIds : (initialized /\ InitCompletes(i)) => data' = data]_vars

\* ---------------------------------------------------------------- C7
\* C7: whenever createEnrollment or createContactSubmission returns a record,
\* the corresponding file holds that record at that moment.
C7_WriteThrough ==
  [][\A i \in CallIds :
       (calls[i].pc = "ret" /\ calls'[i].pc = "done")
       => InDocument(calls[i].rec[1],
                     IF calls[i].op = "createEnrollment" THEN dataFile' ELSE contactFile')]_vars

\* ---------------------------------------------------------------- C8
\* C8: in every reachable state no two records of data.enrollments, and no two
\* of data.contactSubmissions, have the same id.
C8_UniqueIds ==
  /\ NoDuplicateIds(data.enrollments)
  /\ NoDuplicateIds(data.contactSubmissions)

\* ---------------------------------------------------------------- C9
\* Either file held unparsable text when the process started.
BootCorrupt == bootFiles[1] = Corrupt \/ bootFiles[2] = Corrupt

\* C9: an init() that read unparsable text from either file completes without
\* throwing, leaving both collections empty and this.initialized set, and the
\* method that awaited it goes on; and in a process that started on an
\* unparsable file every createContactSubmission returns a record and every
\* createEnrollment returns a record unless it found its pair already stored.
C9_ParseFailureFallsBack ==
  [][/\ \A i \in CallIds :
          ( /\ InitCompletes(i)
            /\ (calls[i].enrollmentsData = Corrupt \/ calls[i].contactData = Corrupt) )
          => /\ data' = EmptyData
             /\ initialized'
             /\ calls'[i].result = Pending
             /\ calls'[i].pc = AfterInit(calls[i].op)
     /\ \A j \in CallIds :
          ( /\ BootCorrupt
            /\ calls[j].pc # "done" /\ calls'[j].pc = "done"
            /\ calls[j].op \in {"createEnrollment", "createContactSubmission"} )
          => \/ calls'[j].result.kind = "record"
             \/ /\ calls[j].op = "createEnrollment"
                /\ calls[j].existing # <<>>
                /\ calls[j].existing[1].email = calls[j].args.email
                /\ calls[j].existing[1].course_title = calls[j].args.courseTitle
                /\ calls'[j].result.msg = DuplicateMessage]_vars

\* A process that started on an unparsable contact file, in which a
\* createEnrollment and a createContactSubmission have both returned a record.
C9_Witness ==
  /\ bootFiles[2] = Corrupt
  /\ initialized
  /\ \E i, j \in CallIds :
       /\ calls[i].op = "createEnrollment" /\ ReturnedRecord(i)
       /\ calls[j].op = "createContactSubmission" /\ ReturnedRecord(j)

\* ---------------------------------------------------------------- C10
\* C10: a getEnrollmentByCourseAndEmail(c, e) made after createEnrollment(e, n, c)
\* has returned record r returns r; and a lookup that returns a record returns
\* one with the course and email asked for.
C10_InsertLookupRoundTrip ==
  /\ \A i, g \in CallIds :
       ( /\ calls[i].op = "createEnrollment" /\ ReturnedRecord(i)
         /\ calls[g].op = "getEnrollmentByCourseAndEmail" /\ calls[g].pc = "done"
         /\ i \in calls[g].seen
         /\ PairOf(i) = PairOf(g) )
       => calls[g].result.val = calls[i].result.val
  /\ \A g \in CallIds :
       ( /\ calls[g].op = "getEnrollmentByCourseAndEmail" /\ calls[g].pc = "done"
         /\ calls[g].result.kind # "undefined" )
       => /\ calls[g].result.val[1].email = calls[g].args.email
          /\ calls[g].result.val[1].course_title = calls[g].args.courseTitle

\* ---------------------------------------------------------------- C2
\* The valid enroll requests received for the pair (email, courseTitle).
EnrollRequests(email, courseTitle) ==
  {r \in ReqIds : /\ reqs[r].route = "enroll"
                  /\ reqs[r].body.email = email
                  /\ reqs[r].body.courseTitle = courseTitle
                  /\ reqs[r].body.name # ""}

RowsFor(rows, email, courseTitle) ==
  {k \in 1..Len(rows) : rows[k].email = email /\ rows[k].course_title = courseTitle}

\* C2: for a pair not enrolled when the server started, once all the enroll
\* requests received for it have been answered, exactly one of them got the
\* success response and the table holds exactly one row for the pair, whatever
\* the order of their SELECTs, INSERTs and callbacks.
C2_ExactlyOneSucceeds ==
  \A e \in Emails, c \in Courses :
    LET rs == EnrollRequests(e, c)
    IN ( /\ rs # {}
         /\ \A r \in rs : reqs[r].pc = "done"
         /\ RowsFor(bootTable, e, c) = {} )
       => /\ Cardinality({r \in rs : reqs[r].res.status = 200}) = 1
          /\ Cardinality(RowsFor(table, e, c)) = 1

\* Two requests for one pair that both passed the existence check (both were
\* reached the INSERT): one got 200 and the other 500.
C2_Witness ==
  \E e \in Emails, c \in Courses :
    /\ RowsFor(bootTable, e, c) = {}
    /\ \E r, q \in EnrollRequests(e, c) :
         /\ r # q
         /\ reqs[r].pc = "done" /\ reqs[r].res.status = 200
         /\ reqs[q].pc = "done" /\ reqs[q].res.status = 500

\* ---------------------------------------------------------------- C4
\* C4: every valid POST /api/enrollments that is refused while the table holds
\* a row for its pair is answered 409.
C4_DuplicateIs409 ==
  \A r \in ReqIds :
    ( /\ reqs[r].route = "enroll" /\ reqs[r].pc = "done"
      /\ reqs[r].res.status \notin {200, 400}
      /\ RowsFor(table, reqs[r].body.email, reqs[r].body.courseTitle) # {} )
    => reqs[r].res.status = 409

\* ---------------------------------------------------------------- sorted listings
CountIn(recs, r) == Cardinality({k \in 1..Len(recs) : recs[k] = r})

\* Two arrays holding the same records the same number of times.
IsPermutation(a, b) ==
  /\ Len(a) = Len(b)
  /\ \A k \in 1..Len(a) : CountIn(a, a[k]) = CountIn(b, a[k])

NonIncreasing(recs, key) ==
  \A k \in 1..(Len(recs) - 1) : recs[k][key] >= recs[k + 1][key]

\* C11: whatever the store holds, the step in which getAllEnrollments returns
\* yields a permutation of the stored enrollments with enrolled_at
\* non-increasing from first to last, and the step in which
\* getAllContactSubmissions returns does so for the stored submissions and
\* submitted_at.
C11_ListingsSortedNewestFirst ==
  [][\A i \in CallIds :
       /\ (calls[i].pc = "sort" /\ calls'[i].pc = "done") =>
            /\ IsPermutation(calls'[i].result.val, data.enrollments)
            /\ NonIncreasing(calls'[i].result.val, "enrolled_at")
       /\ (calls[i].pc = "sortContact" /\ calls'[i].pc = "done") =>
            /\ IsPermutation(calls'[i].result.val, data.contactSubmissions)
            /\ NonIncreasing(calls'[i].result.val, "submitted_at")]_vars

\* Both listings have returned on a store whose arrays were stored oldest
\* first, so that each result had to be reordered.
C11_Witness ==
  \E i, j \in CallIds :
    /\ calls[i].op = "getAllEnrollments" /\ calls[i].pc = "done"
    /\ calls[j].op = "getAllContactSubmissions" /\ calls[j].pc = "done"
    /\ Len(calls[i].result.val) = MaxStored
    /\ calls[i].result.val # Parse(dataFile)
    /\ calls[j].result.val # Parse(contactFile)
    /\ Len(calls[j].result.val) >= 2

\* C12: whatever enrollments the store holds, getEnrollmentStats returns their
\* number as totalEnrollments, the number of distinct emails as uniqueUsers, and
\* in enrollmentsByCourse one entry per distinct course_title with the number
\* of its records, in non-increasing order of that number; the numbers sum to
\* totalEnrollments.
RECURSIVE SumEnrollments(_)
SumEnrollments(entries) ==
  IF entries = <<>> THEN 0 ELSE Head(entries).enrollments + SumEnrollments(Tail(entries))

C13_ContactCallAddsOne ==
  [][\A i \in CallIds :
       (initialized /\ calls'[i].op = "createContactSubmission" /\ calls'[i] # calls[i]) =>
         /\ data'.enrollments = data.enrollments
         /\ IF calls[i].pc = "push"
              THEN /\ Len(data'.contactSubmissions) = Len(data.contactSubmissions) + 1
                   /\ calls'[i].rec = <<data'.contactSubmissions[Len(data'.contactSubmissions)]>>
              ELSE data'.contactSubmissions = data.contactSubmissions
         /\ (calls'[i].pc = "done" => calls'[i].result.kind = "record")]_vars

\* ---------------------------------------------------------------- validation
\* Whether the body a request arrived with lacks a field its route requires.
LacksField(req) ==
  \/ /\ req.route = "enroll"
     /\ (req.body.email = "" \/ req.body.name = "" \/ req.body.courseTitle = "")
  \/ /\ req.route = "contact"
     /\ (req.body.name = "" \/ req.body.email = "" \/ req.body.subject = ""
           \/ req.body.message = "")

\* C14: a POST /api/enrollments or POST /api/contact request whose body lacks a
\* required field is answered 400 in the step that receives it, with no
\* statement issued and both tables as they were, and nothing happens to the
\* request afterwards.
C14_MissingFieldIs400 ==
  [][\A r \in ReqIds :
       /\ (reqs[r].pc = "idle" /\ reqs'[r].pc # "idle" /\ LacksField(reqs'[r])) =>
            /\ reqs'[r].res.status = 400
            /\ reqs'[r].pc = "done"
            /\ reqs'[r].stmts = {}
            /\ table' = table
            /\ contact_submissions' = contact_submissions
       /\ (reqs[r].res.status = 400) => reqs'[r] = reqs[r]]_vars

\* An enrollment request lacking only its name and a contact request lacking
\* only its message have been answered 400, after a third request has stored a
\* row.
C14_Witness ==
  \E r, q \in ReqIds :
    /\ reqs[r].route = "enroll" /\ reqs[r].res.status = 400
    /\ reqs[r].body.name = "" /\ reqs[r].body.email # "" /\ reqs[r].body.courseTitle # ""
    /\ reqs[q].route = "contact" /\ reqs[q].res.status = 400
    /\ reqs[q].body.message = "" /\ reqs[q].body.name # "" /\ reqs[q].body.email # ""
    /\ reqs[q].body.subject # ""
    /\ (table # bootTable \/ Len(contact_submissions.rows) > 1)

\* ---------------------------------------------------------------- listing submissions
\* C16: every GET /api/contact/submissions request is answered 200 with the
\* rows stored, also on a database in which contact_submissions was never
\* created.
C16_SubmissionsAnswered ==
  \A r \in ReqIds :
    (reqs[r].route = "submissions" /\ reqs[r].pc = "done") =>
      /\ reqs[r].res.status = 200
      /\ reqs[r].err = ""

\* ---------------------------------------------------------------- statistics
\* C17: in every 200 answer of GET /api/enrollments/stats, totalEnrollments is
\* the sum of the counts in enrollmentsByCourse.
C17_StatsAreOneSnapshot ==
  \A r \in ReqIds :
    (reqs[r].route = "stats" /\ reqs[r].res.status = 200) =>
      reqs[r].res.stats[1].totalEnrollments =
        SumEnrollments(reqs[r].res.stats[1].enrollmentsByCourse)

\* ---------------------------------------------------------------- the two backends
Triples(recs) ==
  {<<recs[k].email, recs[k].name, recs[k].course_title>> : k \in 1..Len(recs)}

\* Operation k has finished on both backends.
PairDone(k) == calls[k].pc = "done" /\ reqs[k].pc = "done"

\* No operation is under way on either backend.
PairQuiet ==
  \A k \in PairIds :
    /\ calls[k].pc \in {"idle", "done"}
    /\ reqs[k].pc \in {"idle", "done"}
    /\ calls[k].pc = "done" <=> reqs[k].pc = "done"

\* C15: given the same operations one after the other from empty stores, the
\* two backends give the same outcome for each operation (an enroll is created
\* on both or refused as a duplicate on both, a check finds a record on both or
\* on neither) and hold the same (email, name, course_title) triples after
\* each operation; no INSERT of such a run meets the UNIQUE constraint.
C15_BackendsAgree ==
  /\ \A k \in PairIds :
       PairDone(k) =>
         IF calls[k].op = "createEnrollment"
           THEN /\ calls[k].result.kind = "record" <=> reqs[k].res.status = 200
                /\ calls[k].result.kind = "error" <=> reqs[k].res.status = 409
                /\ reqs[k].res.status \in {200, 409}
           ELSE /\ reqs[k].res.status = 200
                /\ calls[k].result.kind = "found" <=> reqs[k].res.enrolled
                /\ calls[k].result.kind = "undefined" <=> ~reqs[k].res.enrolled
  /\ PairQuiet => Triples(data.enrollments) = Triples(table)
  /\ \A r \in ReqIds :
       reqs[r].pc = "insert" =>
         ~UniqueViolation(table, reqs[r].body.email, reqs[r].body.courseTitle)

\* Both backends have created an enrollment, refused a second one for the same
\* pair under another name, and answered a check for it.
C15_Witness ==
  \E k, j, c \in PairIds :
    /\ k < j /\ j < c /\ PairDone(k) /\ PairDone(j) /\ PairDone(c)
    /\ reqs[k].res.status = 200 /\ reqs[j].res.status = 409
    /\ reqs[j].body.name # reqs[k].body.name
    /\ reqs[c].route = "check" /\ reqs[c].res.enrolled
====
